---- MODULE Spec2Model ----
(***************************************************************************)
(* did-key.rs: the tagged-union key type DIDKey, its constructors, the     *)
(* multicodec + multibase fingerprint codec, the did:key URI resolver and  *)
(* the sign / verify / key_exchange dispatch.                              *)
(*                                                                         *)
(* Bytes are integers 0..255, byte strings are sequences of bytes, text is *)
(* a sequence of one-character strings.  Every call of the library ends in *)
(* one of three ways: it returns a value ("ok"), it returns an Err value   *)
(* ("err"), or it panics ("panic": panic!, todo!, unimplemented!, expect,  *)
(* unwrap or an out-of-range slice).                                       *)
(***************************************************************************)
EXTENDS Integers, Sequences, FiniteSets, TLC

(* ---------------------------------------------------------------- bounds *)
\* seeds 1..NumSeeds are the 32-byte seeds a caller passes or getrandom draws
NumSeeds == 1
\* the number of keys a caller keeps alive at the same time
MaxKeys == 2
\* payload bytes are drawn from 1..NumPayloadBytes
NumPayloadBytes == 2

(* ------------------------------------------------------- outcomes, Option *)
None == [some |-> FALSE, v |-> <<>>]
Some(e) == [some |-> TRUE, v |-> e]

Ok(e) == [kind |-> "ok", val |-> e, msg |-> ""]
Err(m) == [kind |-> "err", val |-> <<>>, msg |-> m]
Panic(m) == [kind |-> "panic", val |-> <<>>, msg |-> m]

(* ------------------------------------------------------------ byte helpers *)
\* a function on 1..n as a sequence value
Vec(f) == f \o <<>>

Rep(b, n) == Vec([i \in 1..n |-> b])

Drop(s, n) == SubSeq(s, n + 1, Len(s))

Reverse(s) == Vec([i \in 1..Len(s) |-> s[Len(s) + 1 - i]])

\* the number of leading elements of s equal to c
LeadingCount(s, c) ==
  Cardinality({i \in 1..Len(s) : \A j \in 1..i : s[j] = c})

\* big-endian comparison of two byte strings of the same length
BytesLess(a, b) ==
  \E i \in 1..Len(a) : a[i] < b[i] /\ \A j \in 1..(i - 1) : a[j] = b[j]

(* ------------------------------------------------------------- bs58 crate *)
ALPHABET ==
  << "1","2","3","4","5","6","7","8","9",
     "A","B","C","D","E","F","G","H","J","K","L","M","N","P","Q","R","S","T",
     "U","V","W","X","Y","Z",
     "a","b","c","d","e","f","g","h","i","j","k","m","n","o","p","q","r","s",
     "t","u","v","w","x","y","z" >>

AlphabetIndex(c) ==
  IF \E i \in 1..58 : ALPHABET[i] = c
  THEN (CHOOSE i \in 1..58 : ALPHABET[i] = c) - 1
  ELSE -1

\* "for digit in output { carry += digit * from; digit = carry % to;
\* carry /= to }" over the little-endian digits[lo..hi]: the new digits and the
\* carry out.  The range is halved, and the left half is evaluated before the
\* right one starts.
RECURSIVE CarryRange(_, _, _, _, _, _)
CarryRange(digits, lo, hi, carry, from, to) ==
  IF lo > hi THEN [out |-> <<>>, carry |-> carry]
  ELSE IF lo = hi
  THEN LET c == carry + digits[lo] * from
       IN  [out |-> <<c % to>>, carry |-> c \div to]
  ELSE LET mid == (lo + hi) \div 2
           left == CarryRange(digits, lo, mid, carry, from, to)
       IN  IF left.carry >= 0
           THEN LET right == CarryRange(digits, mid + 1, hi, left.carry, from, to)
                IN  [out |-> left.out \o right.out, carry |-> right.carry]
           ELSE left

\* "while carry > 0 { push carry % to; carry /= to }"
RECURSIVE CarryTail(_, _)
CarryTail(carry, to) ==
  IF carry = 0 THEN <<>> ELSE <<carry % to>> \o CarryTail(carry \div to, to)

\* one pass of the inner loop for the input value val
CarryInto(digits, val, from, to) ==
  LET r == CarryRange(digits, 1, Len(digits), val, from, to)
  IN  r.out \o CarryTail(r.carry, to)

\* the loop "for val in input { one CarryInto pass }" over input[lo..hi]; the
\* range is halved and the left half is evaluated before the right one starts
RECURSIVE ConvertRange(_, _, _, _, _, _)
ConvertRange(digits, input, lo, hi, from, to) ==
  IF lo > hi THEN digits
  ELSE IF lo = hi THEN CarryInto(digits, input[lo], from, to)
  ELSE LET mid == (lo + hi) \div 2
           left == ConvertRange(digits, input, lo, mid, from, to)
       IN  IF Len(left) >= 0
           THEN ConvertRange(left, input, mid + 1, hi, from, to)
           ELSE <<>>

\* bs58::encode(data).into_string()
bs58_encode(data) ==
  LET digits == ConvertRange(<<>>, data, 1, Len(data), 256, 58)
                  \o Rep(0, LeadingCount(data, 0))
      rev == Reverse(digits)
  IN  Vec([i \in 1..Len(rev) |-> ALPHABET[rev[i] + 1]])

\* bs58::decode(text).into_vec()
bs58_decode(text) ==
  IF \E i \in 1..Len(text) : AlphabetIndex(text[i]) < 0
  THEN Err("invalid character")
  ELSE LET vals == Vec([i \in 1..Len(text) |-> AlphabetIndex(text[i])])
           bytes == ConvertRange(<<>>, vals, 1, Len(vals), 58, 256)
                      \o Rep(0, LeadingCount(text, "1"))
       IN  Ok(Reverse(bytes))

(* ------------------------------------------------------------- url crate *)
IsAlpha(c) ==
  c \in {"a","b","c","d","e","f","g","h","i","j","k","l","m","n","o","p","q",
         "r","s","t","u","v","w","x","y","z",
         "A","B","C","D","E","F","G","H","I","J","K","L","M","N","O","P","Q",
         "R","S","T","U","V","W","X","Y","Z"}

IsSchemeChar(c) ==
  IsAlpha(c) \/ c \in {"0","1","2","3","4","5","6","7","8","9","+","-","."}

IndexOf(s, c) ==
  IF \E i \in 1..Len(s) : s[i] = c
  THEN CHOOSE i \in 1..Len(s) : s[i] = c /\ \A j \in 1..(i - 1) : s[j] # c
  ELSE 0

\* Url::parse on text over letters, digits, ":" and "#": the scheme is the
\* text before the first ":", the fragment the text after the first "#";
\* a text with no scheme is a relative URL without a base, an error
Url_parse(s) ==
  LET colon == IndexOf(s, ":")
      hash == IndexOf(s, "#")
  IN  IF colon < 2 \/ ~IsAlpha(s[1])
         \/ \E i \in 1..(colon - 1) : ~IsSchemeChar(s[i])
      THEN Err("relative URL without a base")
      ELSE Ok([serialization |-> s,
               fragment |-> IF hash = 0 THEN None ELSE Some(Drop(s, hash))])

\* the first position at or after `at` where `from` occurs in s, 0 if none
FindFrom(s, from, at) ==
  LET hits == {i \in at..(Len(s) - Len(from) + 1) : SubSeq(s, i, i + Len(from) - 1) = from}
  IN  IF hits = {} THEN 0 ELSE CHOOSE i \in hits : \A j \in hits : i <= j

\* str::replace(from, ""): every non-overlapping occurrence, left to right
RECURSIVE RemoveAll(_, _)
RemoveAll(s, from) ==
  LET at == FindFrom(s, from, 1)
  IN  IF at = 0 THEN s
      ELSE SubSeq(s, 1, at - 1) \o RemoveAll(Drop(s, at + Len(from) - 1), from)

\* str::strip_prefix
strip_prefix(s, prefix) ==
  IF Len(s) >= Len(prefix) /\ SubSeq(s, 1, Len(prefix)) = prefix
  THEN Some(Drop(s, Len(prefix)))
  ELSE None

DID_KEY_PREFIX == <<"d","i","d",":","k","e","y",":">>

(* ------------------------------------------------------ algorithm provider *)
(* The curve arithmetic lives in the x25519_dalek and p256 crates.  It is  *)
(* modelled by a small group, the powers of GroupGen modulo GroupPrime:    *)
(* a scalar acts as an exponent, a point is a group element written into   *)
(* a 32-byte string.                                                       *)
GroupPrime == 251
GroupGen == 6

\* square and multiply
RECURSIVE PowMod(_, _)
PowMod(b, e) ==
  IF e = 0 THEN 1
  ELSE LET h == PowMod(b, e \div 2)
       IN  IF e % 2 = 0 THEN (h * h) % GroupPrime ELSE (h * h * b) % GroupPrime

RECURSIVE SumBytes(_)
SumBytes(s) == IF s = <<>> THEN 0 ELSE s[1] + SumBytes(Tail(s))

ScalarInt(scalar) == SumBytes(scalar) % (GroupPrime - 1)

PointBytes(v) == Vec([i \in 1..32 |-> (v * i) % 256])

PointInt(bytes) == bytes[1] % GroupPrime

\* StaticSecret::from([u8; 32]) clamps the scalar
StaticSecret_from(bytes) ==
  [bytes EXCEPT ![1] = @ - (@ % 8),
                ![32] = IF ((@ % 128) \div 64) = 1 THEN @ % 128 ELSE (@ % 128) + 64]

\* PublicKey::from(&StaticSecret): the scalar times the base point
x25519_public(sk) == PointBytes(PowMod(GroupGen, ScalarInt(sk)))

\* StaticSecret::diffie_hellman(&PublicKey)
diffie_hellman(sk, their_public) ==
  PointBytes(PowMod(PointInt(their_public), ScalarInt(sk)))

\* the order n of the P-256 group, big-endian
P256_ORDER ==
  << 255,255,255,255, 0,0,0,0, 255,255,255,255, 255,255,255,255,
     188,230,250,173, 167,23,158,132, 243,185,202,194, 252,99,37,81 >>

\* SigningKey::new(bytes): the scalar must be in 1..n-1
SigningKey_new(bytes) ==
  IF bytes = Rep(0, 32) \/ ~BytesLess(bytes, P256_ORDER)
  THEN Err("invalid scalar")
  ELSE Ok(bytes)

\* the curve equation of the model: the y coordinate that belongs to x
CurveY(xs) == Vec([i \in 1..32 |-> (3 * xs[i] + 7) % 256])

\* VerifyKey::from(&SigningKey) followed by to_encoded_point(false):
\* 0x04 ++ X ++ Y
p256_public(sk) ==
  LET xs == PointBytes(PowMod(GroupGen, ScalarInt(sk)))
  IN  <<4>> \o xs \o CurveY(xs)

\* EncodedPoint::from_bytes: the tag byte fixes the length
EncodedPoint_from_bytes(bytes) ==
  IF bytes = <<>> THEN Err("invalid key")
  ELSE LET expected == CASE bytes[1] = 0 -> 1
                         [] bytes[1] \in {2, 3} -> 33
                         [] bytes[1] = 4 -> 65
                         [] OTHER -> 0
       IN  IF expected = 0 \/ Len(bytes) # expected
           THEN Err("invalid key")
           ELSE Ok(bytes)

\* VerifyKey::from_encoded_point: an uncompressed point on the curve
VerifyKey_from_encoded_point(point) ==
  IF Len(point) = 65 /\ point[1] = 4
     /\ SubSeq(point, 34, 65) = CurveY(SubSeq(point, 2, 33))
  THEN Ok(point)
  ELSE Err("invalid point")

\* the digest of a message, as wide as a scalar
Digest(m) == <<Len(m) + 1>> \o m \o Rep(0, 31 - Len(m))

\* Signer::sign of the SigningKey: r ++ s, 64 bytes
ecdsa_sign(sk, m) == SubSeq(p256_public(sk), 2, 33) \o Digest(m)

\* Signature::try_from(&[u8]): exactly 64 bytes
Signature_try_from(bytes) ==
  IF Len(bytes) = 64 THEN Ok(bytes) ELSE Err("signature error")

\* Verifier::verify of the VerifyKey
ecdsa_verify(pk, m, sig) == sig = SubSeq(pk, 2, 33) \o Digest(m)

(* ---------------------------------------------------------------- Payload *)
Buffer(data) == [kind |-> "Buffer", data |-> data]
BufferArray(data) == [kind |-> "BufferArray", data |-> data]

(* -------------------------------------------------------- generate_seed *)
\* `random` is what getrandom writes into the seed buffer
generate_seed(initial_seed, random) ==
  IF initial_seed = <<>> \/ Len(initial_seed) # 32
  THEN Ok(random)
  ELSE IF Len(initial_seed) = 32 THEN Ok(initial_seed) ELSE Err("invalid seed size")

(* ------------------------------------------------------------ AsymmetricKey *)
AsymmetricKey(pk, sk) == [public_key |-> pk, secret_key |-> sk]

(* --------------------------------------------------------------- P256KeyPair *)
\* public_key holds the VerifyKey as its uncompressed encoded point
P256KeyPair_from_seed(seed, random) ==
  LET secret_seed == generate_seed(seed, random)
  IN  IF secret_seed.kind # "ok" THEN Panic("invalid seed")
      ELSE LET sk == SigningKey_new(secret_seed.val)
           IN  IF sk.kind # "ok" THEN Panic("Couldn't create key")
               ELSE Ok(AsymmetricKey(p256_public(sk.val), Some(sk.val)))

P256KeyPair_from_public_key(public_key) ==
  LET pk == IF Len(public_key) = 65 THEN public_key ELSE <<4>> \o public_key
      point == EncodedPoint_from_bytes(pk)
  IN  IF point.kind # "ok" THEN Panic("invalid key")
      ELSE LET vk == VerifyKey_from_encoded_point(point.val)
           IN  IF vk.kind # "ok" THEN Panic("invalid point")
               ELSE Ok(AsymmetricKey(vk.val, None))

P256KeyPair_sign(self, payload) ==
  IF payload.kind = "Buffer"
  THEN IF self.secret_key.some
       THEN Ok(ecdsa_sign(self.secret_key.v, payload.data))
       ELSE Panic("secret key not found")
  ELSE Panic("not implemented: payload type not supported for this key")

\* P256KeyPair::verify with the two arms of the match exchanged
P256KeyPair_verify_swapped(self, payload, signature) ==
  IF payload.kind = "Buffer"
  THEN LET sig == Signature_try_from(signature)
       IN  IF sig.kind # "ok" THEN Panic("called unwrap on an Err value")
           ELSE IF ecdsa_verify(self.public_key, payload.data, sig.val)
                THEN Err("invalid signature")
                ELSE Ok(<<>>)
  ELSE Panic("not implemented: payload type not supported for this key")

P256KeyPair_verify(self, payload, signature) ==
  IF payload.kind = "Buffer"
  THEN LET sig == Signature_try_from(signature)
       IN  IF sig.kind # "ok" THEN Panic("called unwrap on an Err value")
           ELSE IF ecdsa_verify(self.public_key, payload.data, sig.val)
                THEN Ok(<<>>)
                ELSE Err("invalid signature")
  ELSE Panic("not implemented: payload type not supported for this key")

(* ------------------------------------------------------------- X25519KeyPair *)
X25519KeyPair_from_seed(seed, random) ==
  LET secret_seed == generate_seed(seed, random)
  IN  IF secret_seed.kind # "ok" THEN Panic("invalid seed")
      ELSE LET sk == StaticSecret_from(secret_seed.val)
           IN  Ok(AsymmetricKey(x25519_public(sk), Some(sk)))

\* clone_from_slice panics unless the slice is as long as the array
X25519KeyPair_from_public_key(public_key) ==
  IF Len(public_key) # 32
  THEN Panic("source slice length does not match destination slice length")
  ELSE Ok(AsymmetricKey(public_key, None))

\* X25519KeyPair::key_exchange reading its own public key, not the other's
X25519KeyPair_key_exchange_own(self, key) ==
  IF self.secret_key.some
  THEN Ok(diffie_hellman(self.secret_key.v, self.public_key))
  ELSE Panic("secret key not present")

X25519KeyPair_key_exchange(self, key) ==
  IF self.secret_key.some
  THEN Ok(diffie_hellman(self.secret_key.v, key.public_key))
  ELSE Panic("secret key not present")

(* ------------------------------------------------------------ Ed25519KeyPair *)
(* ed25519.rs is not among the sources; the adapter follows the Key Pair   *)
(* contract of the specification.                                          *)
Ed25519KeyPair_from_seed(seed, random) ==
  IF seed = <<>> THEN Ok(AsymmetricKey(x25519_public(random), Some(random)))
  ELSE IF Len(seed) = 32 THEN Ok(AsymmetricKey(x25519_public(seed), Some(seed)))
  ELSE Err("invalid seed size")

Ed25519KeyPair_from_public_key(public_key) ==
  IF Len(public_key) = 32 THEN Ok(AsymmetricKey(public_key, None))
  ELSE Err("invalid public key encoding")

Ed25519KeyPair_sign(self, payload) ==
  IF ~self.secret_key.some THEN Err("secret key absent")
  ELSE IF payload.kind # "Buffer" THEN Err("payload type not supported")
  ELSE Ok(self.public_key \o Digest(payload.data))

Ed25519KeyPair_verify(self, payload, signature) ==
  IF payload.kind = "Buffer" /\ signature = self.public_key \o Digest(payload.data)
  THEN Ok(<<>>)
  ELSE Err("invalid signature")

(* ----------------------------------------------------------- Bls12381KeyPair *)
(* bls12381.rs is not among the sources either; a BLS pair holds its       *)
(* public key as bytes (lib.rs reads x.public_key.clone()).                *)
RECURSIVE Flatten(_)
Flatten(ss) == IF ss = <<>> THEN <<>> ELSE ss[1] \o Flatten(Tail(ss))

PayloadBytes(payload) ==
  IF payload.kind = "Buffer" THEN payload.data ELSE Flatten(payload.data)

Bls12381KeyPair_sign(self, payload) ==
  IF ~self.secret_key.some THEN Err("secret key absent")
  ELSE Ok(SubSeq(self.public_key, 1, 32) \o Digest(PayloadBytes(payload)))

Bls12381KeyPair_verify(self, payload, signature) ==
  IF signature = SubSeq(self.public_key, 1, 32) \o Digest(PayloadBytes(payload))
  THEN Ok(<<>>)
  ELSE Err("invalid signature")

(* -------------------------------------------------------------------- DIDKey *)
DIDKeyType == {"Ed25519", "X25519", "P256", "Bls12381G1", "Bls12381G2"}

\* DIDKey::<variant>(pair), and the outcome of a constructor wrapped the same way
DIDKey(key_type, pair) ==
  [type |-> key_type, public_key |-> pair.public_key, secret_key |-> pair.secret_key]

Wrap(key_type, r) == IF r.kind = "ok" THEN Ok(DIDKey(key_type, r.val)) ELSE r

DIDKey_from_seed(key_type, seed, random) ==
  CASE key_type = "Ed25519" -> Wrap(key_type, Ed25519KeyPair_from_seed(seed, random))
    [] key_type = "X25519" -> Wrap(key_type, X25519KeyPair_from_seed(seed, random))
    [] key_type = "P256" -> Wrap(key_type, P256KeyPair_from_seed(seed, random))
    [] OTHER -> Panic("not yet implemented")

DIDKey_from_public_key(key_type, seed) ==
  CASE key_type = "Ed25519" -> Wrap(key_type, Ed25519KeyPair_from_public_key(seed))
    [] key_type = "X25519" -> Wrap(key_type, X25519KeyPair_from_public_key(seed))
    [] key_type = "P256" -> Wrap(key_type, P256KeyPair_from_public_key(seed))
    [] OTHER -> Panic("not yet implemented")

DIDKey_key_exchange(self, key) ==
  CASE self.type = "X25519" /\ key.type = "X25519" -> X25519KeyPair_key_exchange(self, key)
    [] self.type = "P256" /\ key.type = "P256" -> Panic("not yet implemented")
    [] OTHER -> Panic("not implemented")

DIDKey_sign(self, payload) ==
  CASE self.type = "Ed25519" -> Ed25519KeyPair_sign(self, payload)
    [] self.type = "P256" -> P256KeyPair_sign(self, payload)
    [] self.type \in {"Bls12381G1", "Bls12381G2"} -> Bls12381KeyPair_sign(self, payload)
    [] OTHER -> Panic("not implemented")

\* .map_or(false, |()| true) turns Ok(()) into true and Err(_) into false
DIDKey_verify(self, payload, signature) ==
  LET r == CASE self.type = "Ed25519" -> Ed25519KeyPair_verify(self, payload, signature)
             [] self.type = "P256" -> P256KeyPair_verify(self, payload, signature)
             [] self.type \in {"Bls12381G1", "Bls12381G2"} ->
                  Bls12381KeyPair_verify(self, payload, signature)
             [] OTHER -> Panic("not implemented")
  IN  IF r.kind = "panic" THEN r ELSE Ok(r.kind = "ok")

DIDKey_public_key(self) == self.public_key

Codec(key_type) ==
  CASE key_type = "Ed25519" -> <<237, 1>>
    [] key_type = "X25519" -> <<236, 1>>
    [] key_type = "P256" -> <<18, 0, 1>>
    [] key_type = "Bls12381G1" -> <<234, 1>>
    [] key_type = "Bls12381G2" -> <<235, 1>>

DIDKey_fingerprint(self) ==
  LET data == Codec(self.type) \o DIDKey_public_key(self)
  IN  <<"z">> \o bs58_encode(data)

\* the codec dispatch of try_from on the decoded bytes
Dispatch(pub_key) ==
  IF Len(pub_key) < 2 THEN Panic("range end index 2 out of range")
  ELSE
  LET head == SubSeq(pub_key, 1, 2)
  IN  CASE head = <<237, 1>> -> DIDKey_from_public_key("Ed25519", Drop(pub_key, 2))
        [] head = <<236, 1>> -> DIDKey_from_public_key("X25519", Drop(pub_key, 2))
        [] head = <<234, 1>> -> DIDKey_from_public_key("Bls12381G1", Drop(pub_key, 2))
        [] head = <<235, 1>> -> DIDKey_from_public_key("Bls12381G2", Drop(pub_key, 2))
        [] head = <<18, 0>> ->
             IF Len(pub_key) < 3
             THEN Panic("range start index 3 out of range")
             ELSE DIDKey_from_public_key("P256", Drop(pub_key, 3))
        [] OTHER -> Panic("not implemented: unsupported key type")

\* try_from reading the text after "did:key:" even when there is a fragment
try_from_path(did_uri) ==
  LET url == Url_parse(did_uri)
  IN  IF url.kind # "ok" THEN Err("couldn't parse DID URI")
      ELSE
      LET text == RemoveAll(url.val.serialization, DID_KEY_PREFIX)
          stripped == strip_prefix(text, <<"z">>)
      IN  IF ~stripped.some THEN Err("invalid URI data")
          ELSE
          LET decoded == bs58_decode(stripped.v)
          IN  IF decoded.kind # "ok" THEN Err("invalid base58 encoded data in DID URI")
              ELSE Dispatch(decoded.val)

\* impl TryFrom<String> for DIDKey, which DIDKey::resolve calls
try_from(did_uri) ==
  LET url == Url_parse(did_uri)
  IN  IF url.kind # "ok" THEN Err("couldn't parse DID URI")
      ELSE
      LET text == IF url.val.fragment.some
                  THEN url.val.fragment.v
                  ELSE RemoveAll(url.val.serialization, DID_KEY_PREFIX)
          stripped == strip_prefix(text, <<"z">>)
      IN  IF ~stripped.some THEN Err("invalid URI data")
          ELSE
          LET decoded == bs58_decode(stripped.v)
          IN  IF decoded.kind # "ok" THEN Err("invalid base58 encoded data in DID URI")
              ELSE
              Dispatch(decoded.val)

DIDKey_resolve(did_uri) == try_from(did_uri)

(* ------------------------------------------------------ the caller's inputs *)
(* The library keeps no state of its own: what exists at any moment is the *)
(* set of keys the caller holds.  Every operation is a pure function of    *)
(* its arguments (and of the bytes getrandom returns), so each operation   *)
(* is tabulated once over the inputs the caller can form.                  *)
Seed32(b) == Rep(b, 32)

\* all-zero bytes and the seeds 1..NumSeeds
Seeds32 == {Seed32(b) : b \in 0..NumSeeds}

\* the seeds a caller passes: empty, of a wrong length, or 32 bytes
SeedInputs == {<<>>, Rep(1, 1), Rep(1, 33)} \cup Seeds32

Payloads ==
  {Buffer(<<b>>) : b \in 1..NumPayloadBytes} \cup {BufferArray(<< <<1>>, <<2>> >>)}

FromSeedInputs == DIDKeyType \X SeedInputs \X Seeds32

from_seed_memo ==
  [a \in FromSeedInputs |-> DIDKey_from_seed(a[1], a[2], a[3])]

SeededKeys ==
  {from_seed_memo[a].val : a \in {b \in FromSeedInputs : from_seed_memo[b].kind = "ok"}}

\* a BLS pair as bls12381.rs builds it: 48 bytes in G1, 96 bytes in G2
BlsKeys ==
  { DIDKey("Bls12381G1", AsymmetricKey(Rep(1, 48), None)),
    DIDKey("Bls12381G2", AsymmetricKey(Rep(1, 96), None)) }

\* public-key bytes a caller passes to from_public_key: the bytes of a key,
\* the raw 64-byte coordinate pair of a P-256 key, and bytes that are no key
KeyBytes(k) ==
  {<<k.type, DIDKey_public_key(k)>>}
    \cup IF k.type = "P256" THEN {<<"P256", Drop(DIDKey_public_key(k), 1)>>} ELSE {}

NoKeyBytes ==
  {<<"P256", Rep(4, 65)>>, <<"P256", <<>> >>, <<"X25519", Rep(1, 31)>>,
   <<"Ed25519", Rep(1, 31)>>}

PublicKeyInputs == UNION {KeyBytes(k) : k \in SeededKeys \cup BlsKeys} \cup NoKeyBytes

from_public_key_memo ==
  [a \in PublicKeyInputs |-> DIDKey_from_public_key(a[1], a[2])]

PublicOnlyKeys ==
  {from_public_key_memo[a].val :
     a \in {b \in PublicKeyInputs : from_public_key_memo[b].kind = "ok"}}

AllKeys == SeededKeys \cup PublicOnlyKeys \cup BlsKeys

fingerprint_memo == [k \in AllKeys |-> DIDKey_fingerprint(k)]

sign_memo == [a \in AllKeys \X Payloads |-> DIDKey_sign(a[1], a[2])]

\* signatures a caller passes to verify: the ones sign returned, the empty
\* string, 63 bytes, and 64 bytes that nobody signed
SignaturesOf(ks) ==
  {sign_memo[a].val : a \in {b \in ks \X Payloads : sign_memo[b].kind = "ok"}}

UnsignedBytes == {<<>>, Rep(1, 63), Rep(1, 64)}

Signatures == SignaturesOf(AllKeys) \cup UnsignedBytes

verify_memo ==
  [a \in AllKeys \X Payloads \X Signatures |-> DIDKey_verify(a[1], a[2], a[3])]

key_exchange_memo == [a \in AllKeys \X AllKeys |-> DIDKey_key_exchange(a[1], a[2])]

\* byte strings that are not codec ++ key: too short, an unknown codec, a
\* key of the wrong length, leading zero bytes, and a P-256 point behind
\* 0x12 0x00 and a third byte that is not 0x01
OtherData ==
  {<<>>, <<237>>, <<18, 0>>, <<1, 2, 3>>, <<0, 0, 237, 1>>,
   <<237, 1>> \o Rep(1, 31), <<236, 1>> \o Rep(1, 31)}
    \cup {<<18, 0, 7>> \o DIDKey_public_key(k) : k \in {j \in SeededKeys : j.type = "P256"}}

\* encoded-key texts: fingerprints, encodings of other data, a text without
\* the multibase marker, a text with a character outside the alphabet
\* the multibase text of a byte string: "z" ++ base58
text_memo == [d \in OtherData |-> <<"z">> \o bs58_encode(d)]

OtherTexts ==
  {text_memo[d] : d \in OtherData} \cup {<<"6", "M", "k">>, <<"z", "0", "O">>}

Texts == {fingerprint_memo[k] : k \in AllKeys} \cup OtherTexts

DidUri(text) == DID_KEY_PREFIX \o text

DidUriFragment(text, fragment) == DID_KEY_PREFIX \o text \o <<"#">> \o fragment

\* the URIs a caller forms from the texts ts: did:key:T and did:key:T#T
UrisOf(ts) == {DidUri(t) : t \in ts} \cup {DidUriFragment(t, t) : t \in ts}

\* the URIs whose fragment is one of the texts fs and differs from the path
FragmentUrisOf(ts, fs) ==
  {DidUriFragment(t[1], t[2]) : t \in {p \in ts \X fs : p[1] # p[2]}}

\* fragments that are no fingerprint: no marker, an unknown codec, empty
OtherFragments == {<<"6", "M", "k">>, <<"z">> \o bs58_encode(<<1, 2, 3>>), <<>>}

\* a text that is no URI
OtherUris == {<<"z", "6", "M", "k">>}

KeyTexts == {fingerprint_memo[k] : k \in AllKeys}

URIs ==
  UrisOf(Texts \cup OtherFragments)
    \cup FragmentUrisOf(KeyTexts, KeyTexts \cup OtherFragments) \cup OtherUris

resolve_memo == [u \in URIs |-> DIDKey_resolve(u)]

(* ----------------------------------------------------------------- state *)
VARIABLES
  keys,     \* the keys the caller holds
  op,       \* the operation the caller called, "none" between two calls
  args,     \* its arguments
  result    \* its outcome: Ok(value), Err(message) or Panic(message)

vars == <<keys, op, args, result>>

Init ==
  /\ keys = {}
  /\ op = "none"
  /\ args = <<>>
  /\ result = Ok(<<>>)

\* the caller is between two calls
Ready == op = "none"

\* the caller keeps the key a constructor returned while it has room for it
Hold(r) ==
  IF r.kind = "ok" /\ Cardinality(keys) < MaxKeys THEN keys \cup {r.val} ELSE keys

\* DIDKey::from_seed(key_type, seed); getrandom returns `random`
FromSeed(key_type, seed, random) ==
  /\ Ready
  /\ op' = "from_seed"
  /\ args' = [key_type |-> key_type, seed |-> seed, random |-> random]
  /\ result' = from_seed_memo[<<key_type, seed, random>>]
  /\ keys' = Hold(from_seed_memo[<<key_type, seed, random>>])

\* DIDKey::from_public_key(key_type, bytes)
FromPublicKey(key_type, bytes) ==
  /\ Ready
  /\ op' = "from_public_key"
  /\ args' = [key_type |-> key_type, bytes |-> bytes]
  /\ result' = from_public_key_memo[<<key_type, bytes>>]
  /\ keys' = Hold(from_public_key_memo[<<key_type, bytes>>])

\* DIDKey::Bls12381G1(pair) or DIDKey::Bls12381G2(pair) around a pair that
\* bls12381.rs built
WrapBls(k) ==
  /\ Ready
  /\ op' = "wrap_bls"
  /\ args' = [key_type |-> k.type]
  /\ result' = Ok(k)
  /\ keys' = Hold(Ok(k))

\* key.fingerprint()
Fingerprint(k) ==
  /\ Ready
  /\ op' = "fingerprint"
  /\ args' = [key |-> k]
  /\ result' = Ok(fingerprint_memo[k])
  /\ UNCHANGED keys

\* DIDKey::resolve(did_uri)
Resolve(did_uri) ==
  /\ Ready
  /\ op' = "resolve"
  /\ args' = [did_uri |-> did_uri]
  /\ result' = resolve_memo[did_uri]
  /\ keys' = Hold(resolve_memo[did_uri])

\* key.sign(payload)
Sign(k, payload) ==
  /\ Ready
  /\ op' = "sign"
  /\ args' = [key |-> k, payload |-> payload]
  /\ result' = sign_memo[<<k, payload>>]
  /\ UNCHANGED keys

\* key.verify(payload, &signature)
Verify(k, payload, signature) ==
  /\ Ready
  /\ op' = "verify"
  /\ args' = [key |-> k, payload |-> payload, signature |-> signature]
  /\ result' = verify_memo[<<k, payload, signature>>]
  /\ UNCHANGED keys

\* key.key_exchange(&other)
KeyExchange(k, other) ==
  /\ Ready
  /\ op' = "key_exchange"
  /\ args' = [key |-> k, other |-> other]
  /\ result' = key_exchange_memo[<<k, other>>]
  /\ UNCHANGED keys

\* the caller has looked at the outcome and goes on to its next call; a panic
\* ends the caller, nothing follows it
Return ==
  /\ ~Ready
  /\ result.kind # "panic"
  /\ op' = "none"
  /\ args' = <<>>
  /\ result' = Ok(<<>>)
  /\ UNCHANGED keys

Next ==
  \/ \E key_type \in DIDKeyType, seed \in SeedInputs, random \in Seeds32 :
       FromSeed(key_type, seed, random)
  \/ \E a \in UNION {KeyBytes(k) : k \in keys} \cup NoKeyBytes : FromPublicKey(a[1], a[2])
  \/ \E k \in BlsKeys : WrapBls(k)
  \/ \E k \in keys : Fingerprint(k)
  \/ \E u \in UrisOf({fingerprint_memo[k] : k \in keys} \cup OtherTexts)
                \cup FragmentUrisOf({fingerprint_memo[k] : k \in keys},
                                    {fingerprint_memo[k] : k \in keys} \cup OtherFragments)
                \cup OtherUris :
       Resolve(u)
  \/ \E k \in keys, payload \in Payloads : Sign(k, payload)
  \/ \E k \in keys, payload \in Payloads, signature \in SignaturesOf(keys) \cup UnsignedBytes :
       Verify(k, payload, signature)
  \/ \E k \in keys, other \in keys : KeyExchange(k, other)
  \/ Return

Spec == Init /\ [][Next]_vars
(* ---------------------------------------------------------------- claims *)
HasSecret(k) == k.secret_key.some

FingerprintOf(k) == fingerprint_memo[k]

\* d starts with the codec prefix of some algorithm tag
HasCodec(d) ==
  \E t \in DIDKeyType :
    Len(d) >= Len(Codec(t)) /\ SubSeq(d, 1, Len(Codec(t))) = Codec(t)

\* C1: resolving "did:key:" ++ fingerprint() of a key the caller holds, of any
\* of the five algorithm tags, yields a key with the same tag and the same
\* public-key bytes.
C1_RoundTrip ==
  \A k \in keys :
    (op = "resolve" /\ args.did_uri = DidUri(FingerprintOf(k)))
      => /\ result.kind = "ok"
         /\ result.val.type = k.type
         /\ result.val.public_key = k.public_key

\* C2: resolving did:key:T#F has the outcome of resolving did:key:F, so
\* did:key:T#T and did:key:T resolve alike and a fragment, when present, is
\* the text that is decoded.
C2_ResolveEquivalence ==
  op = "resolve" =>
    \A t \in Texts, f \in Texts \cup OtherFragments :
      args.did_uri = DidUriFragment(t, f) => result = resolve_memo[DidUri(f)]

\* C2 witness: a URI with the fingerprint of a held key as path and as
\* fragment was resolved to a key.
C2_Witness ==
  /\ op = "resolve"
  /\ result.kind = "ok"
  /\ \E k \in keys : args.did_uri = DidUriFragment(FingerprintOf(k), FingerprintOf(k))

\* C3: resolving a URI whose decoded bytes start with no codec prefix (or are
\* shorter than one) returns the error "unsupported key type"; it does not
\* abort and constructs no key.
C3_UnsupportedIsAnError ==
  \A d \in OtherData :
    (op = "resolve" /\ ~HasCodec(d) /\ args.did_uri \in UrisOf({text_memo[d]}))
      => result = Err("unsupported key type")

\* C4: resolve yields a key only when the decoded bytes start with the exact
\* codec prefix of the key's tag (three bytes 0x12 0x00 0x01 for P-256), and
\* the public key is the bytes after that prefix.
C4_ExactPrefix ==
  \A d \in OtherData :
    (op = "resolve" /\ args.did_uri \in UrisOf({text_memo[d]}) /\ result.kind = "ok")
      => /\ Len(d) >= Len(Codec(result.val.type))
         /\ SubSeq(d, 1, Len(Codec(result.val.type))) = Codec(result.val.type)
         /\ result.val.public_key = Drop(d, Len(Codec(result.val.type)))

\* C5: from_seed of X25519 or P-256 uses a 32-byte seed as it is (the outcome
\* does not depend on the random bytes), replaces an empty seed by the random
\* bytes, and for a seed of any other length returns a seed-validation error
\* and produces no key.
C5_SeedLength ==
  (op = "from_seed" /\ args.key_type \in {"X25519", "P256"})
    => /\ Len(args.seed) = 32 =>
            \A r \in Seeds32 : result = from_seed_memo[<<args.key_type, args.seed, r>>]
       /\ Len(args.seed) = 0 =>
            result = from_seed_memo[<<args.key_type, args.random, args.random>>]
       /\ Len(args.seed) \notin {0, 32} => result.kind = "err"

\* the algorithms DIDKey::sign and DIDKey::verify dispatch to
SigningTypes == {"Ed25519", "P256", "Bls12381G1", "Bls12381G2"}

\* C6: sign on a key of a signing algorithm that has no secret key reports a
\* failure to the caller: it returns no signature and does not abort.
C6_SignPublicOnly ==
  (op = "sign" /\ args.key.type \in SigningTypes /\ ~HasSecret(args.key))
    => result.kind = "err"

\* C7: key_exchange returns bytes only for X25519 with X25519 where self has
\* a secret key; every other pair is a reported error, never an abort.
C7_ExchangeNeverAborts ==
  op = "key_exchange" =>
    IF args.key.type = "X25519" /\ args.other.type = "X25519" /\ HasSecret(args.key)
    THEN result.kind = "ok"
    ELSE result.kind = "err"

\* C8: verify by a key of a signing algorithm, with or without a secret key,
\* never aborts, whatever the single-buffer payload and the signature bytes:
\* it returns true or false, and true only for a signature that sign returns
\* for that payload under the same public key.
C8_VerifyNeverAborts ==
  (op = "verify" /\ args.key.type \in SigningTypes /\ args.payload.kind = "Buffer")
    => /\ result.kind = "ok"
       /\ result.val = TRUE =>
            \E j \in AllKeys :
              /\ j.type = args.key.type /\ j.public_key = args.key.public_key
              /\ sign_memo[<<j, args.payload>>] = Ok(args.signature)

\* C9: for a key made by from_seed of a signing algorithm and single-buffer
\* payloads p and q, sign returns a signature, and verifying the signature of
\* q against p, by that key or by a public-only key with the same public-key
\* bytes, succeeds exactly when p = q.
C9_SignVerify ==
  /\ (op = "sign" /\ args.key.type \in {"Ed25519", "P256"} /\ HasSecret(args.key)
        /\ args.payload.kind = "Buffer")
       => result.kind = "ok"
  /\ (op = "verify" /\ args.key.type \in {"Ed25519", "P256"}
        /\ args.payload.kind = "Buffer")
       => \A j \in keys, q \in {p \in Payloads : p.kind = "Buffer"} :
            ( /\ HasSecret(j)
              /\ j.type = args.key.type
              /\ j.public_key = args.key.public_key
              /\ sign_memo[<<j, q>>].kind = "ok"
              /\ sign_memo[<<j, q>>].val = args.signature )
              => result.kind = "ok" /\ result.val = (q = args.payload)

\* C9 witness: a public-only P-256 key accepted a signature.
C9_Witness ==
  /\ op = "verify"
  /\ args.key.type = "P256"
  /\ ~HasSecret(args.key)
  /\ result.kind = "ok" /\ result.val = TRUE

\* C10: for two X25519 keys that both hold a secret key, A.key_exchange(B)
\* returns the bytes B.key_exchange(A) returns.
C10_ExchangeSymmetry ==
  (op = "key_exchange" /\ args.key.type = "X25519" /\ args.other.type = "X25519"
     /\ HasSecret(args.key) /\ HasSecret(args.other))
    => /\ result.kind = "ok"
       /\ result = key_exchange_memo[<<args.other, args.key>>]

\* C10 witness: two different X25519 keys with secret keys were exchanged.
C10_Witness ==
  /\ op = "key_exchange"
  /\ args.key.type = "X25519" /\ args.other.type = "X25519"
  /\ HasSecret(args.key) /\ HasSecret(args.other)
  /\ args.key.public_key # args.other.public_key
  /\ result.kind = "ok"
====
